---- MODULE Spec2Model ----
(***************************************************************************)
(* jello command line front end (src/jello/cli.py): main, print_error,     *)
(* print_exception, helptext, get_stdin and ctrlc as a state machine.      *)
(* Text is a sequence of one-character strings.  Python values are tagged  *)
(* records [tag, v].  The functions imported from jello.lib are modelled   *)
(* from the design document.                                               *)
(***************************************************************************)
EXTENDS Integers, Sequences, FiniteSets, TLC

VARIABLES opts, sigint, isatty, PYGMENTS_INSTALLED, pc, argv, stdin,
          data, query, list_dict_data, response, output, stdout, stderr,
          calls, endKind, exitStatus, interrupted, pe

vars == <<opts, sigint, isatty, PYGMENTS_INSTALLED, pc, argv, stdin,
          data, query, list_dict_data, response, output, stdout, stderr,
          calls, endKind, exitStatus, interrupted, pe>>

(* ------------------------------ bounds --------------------------------- *)
MaxArgs == 2
MaxFieldLen == 74

(* ------------------------- program constants --------------------------- *)
TruncLimit == 70
TruncKeep == 34

(* ------------------------------ text ----------------------------------- *)
NL == "\n"
Ellipsis == <<" ", ".", ".", ".", " ">>

StartsWith(s, p) == Len(s) >= Len(p) /\ SubSeq(s, 1, Len(p)) = p

RECURSIVE Replace(_, _, _)
Replace(s, c, r) ==
    IF s = <<>> THEN <<>>
    ELSE (IF Head(s) = c THEN r ELSE <<Head(s)>>) \o Replace(Tail(s), c, r)

IsSpace(s) == s # <<>> /\ \A i \in 1..Len(s) : s[i] \in {" ", NL, "\t"}

(* s[:n] and s[-n:] of Python *)
First(s, n) == SubSeq(s, 1, IF n < Len(s) THEN n ELSE Len(s))
Last(s, n) == SubSeq(s, (IF n < Len(s) THEN Len(s) - n ELSE 0) + 1, Len(s))

RECURSIVE Join(_, _)
Join(parts, sep) ==
    IF parts = <<>> THEN <<>>
    ELSE IF Len(parts) = 1 THEN parts[1]
    ELSE parts[1] \o sep \o Join(Tail(parts), sep)

(* ------------------------- Python values -------------------------------- *)
None == [tag |-> "None", v |-> <<>>]
PyStr(s) == [tag |-> "str", v |-> s]
PyInt(d) == [tag |-> "int", v |-> <<d>>]
PyList(xs) == [tag |-> "list", v |-> xs]
EmptyStr == PyStr(<<>>)

RECURSIVE Repr(_)
Repr(x) ==
    CASE x.tag = "None" -> <<"N", "o", "n", "e">>
      [] x.tag = "int" -> x.v
      [] x.tag = "str" -> <<"'">> \o x.v \o <<"'">>
      [] x.tag = "list" ->
            <<"[">> \o Join([i \in 1..Len(x.v) |-> Repr(x.v[i])], <<",", " ">>) \o <<"]">>

(* str(x) *)
Str(x) == IF x.tag = "str" THEN x.v ELSE Repr(x)

(* ---------------------------- exceptions -------------------------------- *)
NoAttr == [tag |-> "noattr", v |-> <<>>]
Exc(cls, base, msg, text) == [cls |-> cls, base |-> base, msg |-> msg, text |-> text]
SystemExit1 == Exc("SystemExit", "BaseException", <<"1">>, NoAttr)

(* except Exception *)
CatchesBaseException(e) == TRUE
Catches(e) == e.base = "Exception"

(* --------------------------- print_exception ---------------------------- *)
EscapeNL(x) == Replace(Str(x), NL, <<"\\", "n">>)

TruncateTail33(s) ==
    IF Len(s) > TruncLimit
    THEN First(s, TruncKeep) \o Ellipsis \o Last(s, TruncKeep - 1)
    ELSE s
Truncate(s) ==
    IF Len(s) > TruncLimit
    THEN First(s, TruncKeep) \o Ellipsis \o Last(s, TruncKeep)
    ELSE s

FieldText(x) == Truncate(EscapeNL(x))

ExMap(ldd, q, resp, out) ==
    << [name |-> "query", text |-> FieldText(q)],
       [name |-> "data", text |-> FieldText(ldd)],
       [name |-> "response", text |-> FieldText(resp)],
       [name |-> "output", text |-> FieldText(out)] >>

ItemLines(m) == SelectSeq(m, LAMBDA it : it.text # <<>>)

StderrItem(kind, ex_type, cls, e, e_text, items) ==
    [kind |-> kind, ex_type |-> ex_type, cls |-> cls, e |-> e, e_text |-> e_text,
     items |-> items]

(* the value is what the call does: what reaches STDERR and how the call   *)
(* ends; e.text.replace raises AttributeError when the text attribute is   *)
(* None, and the interpreter then writes the traceback                     *)
print_exception(e, ldd, q, resp, out, ex_type) ==
    IF e.text.tag = "None"
    THEN [printed |-> TRUE,
          msg |-> StderrItem("traceback", ex_type, "AttributeError", <<>>, <<>>, <<>>),
          kind |-> "uncaught", status |-> 1]
    ELSE [printed |-> TRUE,
          msg |-> StderrItem("exception", ex_type, e.cls, e.msg,
                             IF e.text.tag = "str" THEN Replace(e.text.v, NL, <<>>) ELSE <<>>,
                             ItemLines(ExMap(ldd, q, resp, out))),
          kind |-> "exit", status |-> 1]

print_errorNoCode(ex_type, message) ==
    [printed |-> TRUE,
     msg |-> StderrItem("error", ex_type, "", message, <<>>, <<>>),
     kind |-> "exit", status |-> 0]

print_error(ex_type, message) ==
    [printed |-> TRUE,
     msg |-> StderrItem("error", ex_type, "", message, <<>>, <<>>),
     kind |-> "exit", status |-> 1]

(* ------------------- jello.lib, from the design document ---------------- *)
Digits == {"1", "2"}
Ok(v) == [ok |-> TRUE, val |-> v, exc |-> Exc("", "", <<>>, NoAttr)]
Raise(e) == [ok |-> FALSE, val |-> None, exc |-> e]

RECURSIVE Strip(_)
Strip(s) ==
    IF s = <<>> THEN s
    ELSE IF Head(s) \in {" ", NL} THEN Strip(Tail(s))
    ELSE IF s[Len(s)] \in {" ", NL} THEN Strip(SubSeq(s, 1, Len(s) - 1))
    ELSE s

RECURSIVE Split(_, _)
Split(s, c) ==
    IF \E i \in 1..Len(s) : s[i] = c
    THEN LET i == CHOOSE j \in 1..Len(s) : s[j] = c /\ \A k \in 1..(j - 1) : s[k] # c
         IN <<SubSeq(s, 1, i - 1)>> \o Split(SubSeq(s, i + 1, Len(s)), c)
    ELSE <<s>>

(* one JSON value: a digit, a quoted string, or a list of such values *)
RECURSIVE ParseValue(_)
ParseValue(t) ==
    LET s == Strip(t)
        n == Len(s)
    IN IF n = 1 /\ s[1] \in Digits THEN Ok(PyInt(s[1]))
       ELSE IF n >= 2 /\ s[1] = "\"" /\ s[n] = "\""
                /\ \A i \in 2..(n - 1) : s[i] \notin {"\"", NL}
            THEN Ok(PyStr(SubSeq(s, 2, n - 1)))
       ELSE IF n >= 2 /\ s[1] = "[" /\ s[n] = "]"
            THEN IF Strip(SubSeq(s, 2, n - 1)) = <<>> THEN Ok(PyList(<<>>))
                 ELSE LET parts == Split(SubSeq(s, 2, n - 1), ",")
                          vals == [i \in 1..Len(parts) |-> ParseValue(parts[i])]
                      IN IF \A i \in 1..Len(vals) : vals[i].ok
                         THEN Ok(PyList([i \in 1..Len(vals) |-> vals[i].val]))
                         ELSE Raise(Exc("JSONDecodeError", "Exception", <<"b", "a", "d">>, NoAttr))
       ELSE Raise(Exc("JSONDecodeError", "Exception", <<"b", "a", "d">>, NoAttr))

(* a single JSON value, else JSON Lines *)
load_json(text) ==
    IF ParseValue(text).ok THEN ParseValue(text)
    ELSE LET lines == SelectSeq(Split(text, NL), LAMBDA l : Strip(l) # <<>>)
             vals == [i \in 1..Len(lines) |-> ParseValue(lines[i])]
         IN IF lines # <<>> /\ \A i \in 1..Len(vals) : vals[i].ok
            THEN IF Len(vals) = 1 THEN vals[1]
                 ELSE Ok(PyList([i \in 1..Len(vals) |-> vals[i].val]))
            ELSE ParseValue(text)

DigitIndex(d) == IF d = "1" THEN 1 ELSE IF d = "2" THEN 2 ELSE 0

(* access paths: the root marker, then [<digit>] steps *)
RECURSIVE EvalSteps(_, _)
EvalSteps(doc, steps) ==
    IF steps = <<>> THEN Ok(doc)
    ELSE IF Len(steps) >= 3 /\ steps[1] = "[" /\ steps[2] \in (Digits \cup {"0"}) /\ steps[3] = "]"
         THEN IF doc.tag # "list"
              THEN Raise(Exc("TypeError", "Exception", <<"t", "y", "p", "e">>, NoAttr))
              ELSE IF DigitIndex(steps[2]) + 1 > Len(doc.v)
              THEN Raise(Exc("IndexError", "Exception", <<"r", "a", "n", "g", "e">>, NoAttr))
              ELSE EvalSteps(doc.v[DigitIndex(steps[2]) + 1], SubSeq(steps, 4, Len(steps)))
         ELSE Raise(Exc("SyntaxError", "Exception", <<"s", "y", "n">>, PyStr(steps \o <<NL>>)))

pyquery(doc, q) ==
    IF q # <<>> /\ Head(q) = "_" THEN EvalSteps(doc, Tail(q))
    ELSE Raise(Exc("SyntaxError", "Exception", <<"s", "y", "n">>, PyStr(q \o <<NL>>)))

IsScalar(x) == x.tag \in {"int", "str", "None"}
IsScalarList(x) == x.tag = "list" /\ \A i \in 1..Len(x.v) : IsScalar(x.v[i])

RECURSIVE Spaces(_)
Spaces(n) == IF n = 0 THEN <<>> ELSE <<" ">> \o Spaces(n - 1)

RECURSIVE Dumps(_, _, _)
Dumps(x, compact, depth) ==
    CASE x.tag = "None" -> <<"n", "u", "l", "l">>
      [] x.tag = "int" -> x.v
      [] x.tag = "str" -> <<"\"">> \o x.v \o <<"\"">>
      [] x.tag = "list" ->
            IF x.v = <<>> THEN <<"[", "]">>
            ELSE IF compact
            THEN <<"[">> \o Join([i \in 1..Len(x.v) |-> Dumps(x.v[i], compact, depth)], <<",">>)
                 \o <<"]">>
            ELSE <<"[", NL>>
                 \o Join([i \in 1..Len(x.v) |->
                            Spaces(2 * (depth + 1)) \o Dumps(x.v[i], compact, depth + 1)],
                         <<",", NL>>)
                 \o <<NL>> \o Spaces(2 * depth) \o <<"]">>

UnsupportedShape == Exc("UnsupportedShape", "Exception", <<"s", "h", "a", "p", "e">>, NoAttr)

create_json(x, o) ==
    IF (o.raw /\ x.tag # "str") \/ (o.lines /\ ~IsScalarList(x)) THEN Raise(UnsupportedShape)
    ELSE IF o.lines THEN Ok(PyStr(Join([i \in 1..Len(x.v) |-> Str(x.v[i])], <<NL>>)))
    ELSE IF o.raw THEN Ok(PyStr(x.v))
    ELSE Ok(PyStr(Dumps(x, o.compact, 0)))

TypeName(x) ==
    CASE x.tag = "None" -> <<"n", "u", "l", "l">>
      [] x.tag = "int" -> <<"n", "u", "m">>
      [] x.tag = "str" -> <<"s", "t", "r">>
      [] x.tag = "list" -> <<"a", "r", "r">>

IndexChar(i) == CASE i = 1 -> "0" [] i = 2 -> "1" [] OTHER -> "2"

(* one line per terminal value or empty container, in document order *)
RECURSIVE SchemaLines(_, _)
SchemaLines(x, path) ==
    IF x.tag = "list" /\ x.v # <<>>
    THEN LET RECURSIVE Walk(_)
             Walk(i) == IF i > Len(x.v) THEN <<>>
                        ELSE SchemaLines(x.v[i], path \o <<"[", IndexChar(i), "]">>)
                             \o Walk(i + 1)
         IN Walk(1)
    ELSE << path \o <<" ", "=", " ">> \o Dumps(x, TRUE, 0) \o <<";", " ", "(">>
            \o TypeName(x) \o <<")">> >>

schema_text(x) == Ok(PyStr(Join(SchemaLines(x, <<"_">>), <<NL>>)))

(* pygments highlight() wraps the text in colour codes and ends it with a newline *)
highlight(text) == <<"ESC">> \o text \o <<"RESET", NL>>

(* ------------------------------ inputs ---------------------------------- *)
ArgPool ==
    { <<"-", "s">>, <<"-", "m">>, <<"-", "r">>, <<"-", "l", "c">>, <<"-", "h">>, <<"-", "v">>,
      <<"-", "-", "x">>, <<"-", "-", "x", "=", "1">>,
      <<"_", "[", "0", "]">>, <<"_">> }

ArgLists ==
    UNION { [1..n -> ArgPool] : n \in 0..MaxArgs }

Piped(text) == [tty |-> FALSE, text |-> text]
Terminal == [tty |-> TRUE, text |-> <<>>]

(* main(data): the data argument and what STDIN holds when it is read *)
DataInputs ==
    { [data |-> PyStr(t), stdin |-> Terminal] :
        t \in { <<>>, <<" ", NL>>, <<"\"", "a", "\"">>, <<"[", "1", ",", "2", "]">>, <<"{">> } }
    \cup { [data |-> None, stdin |-> Terminal],
           [data |-> None, stdin |-> Piped(<<"1", NL, "2">>)] }

(* failures of a library call or of print() that do not depend on the value *)
Faults ==
    { Exc("RecursionError", "Exception", <<"d", "e", "e", "p">>, NoAttr),
      Exc("SyntaxError", "Exception", <<"s", "y", "n">>, None) }

HelpText == <<"HELP">>
VersionText == <<"VERSION">>
DefaultQuery == <<"_">>

(* ---------------------------- argument loop ----------------------------- *)
IsInt(v) == v # <<>> /\ \A i \in 1..Len(v) : v[i] \in {"0", "1", "2"}

(* k, v = arg[2:].split('='); int(v) *)
LongOptionOk(arg) ==
    LET kv == Split(SubSeq(arg, 3, Len(arg)), "=")
    IN Len(kv) = 2 /\ IsInt(kv[2])

RECURSIVE ArgLoopFirst(_, _, _)
ArgLoopFirst(args, options, q) ==
    IF args = <<>> THEN [options |-> options, query |-> q, help |-> FALSE]
    ELSE LET arg == Head(args)
         IN IF StartsWith(arg, <<"-">>) /\ ~StartsWith(arg, <<"-", "-">>)
            THEN ArgLoopFirst(Tail(args), options \o Tail(arg), q)
            ELSE IF StartsWith(arg, <<"-", "-">>)
            THEN IF LongOptionOk(arg) THEN ArgLoopFirst(Tail(args), options, q)
                 ELSE [options |-> options, query |-> q, help |-> TRUE]
            ELSE [options |-> options, query |-> arg, help |-> FALSE]

(* lines 128-143: the value is the options list, the query, and whether    *)
(* the loop left through helptext()                                        *)
RECURSIVE ArgLoop(_, _, _)
ArgLoop(args, options, q) ==
    IF args = <<>> THEN [options |-> options, query |-> q, help |-> FALSE]
    ELSE LET arg == Head(args)
         IN IF StartsWith(arg, <<"-">>) /\ ~StartsWith(arg, <<"-", "-">>)
            THEN ArgLoop(Tail(args), options \o Tail(arg), q)
            ELSE IF StartsWith(arg, <<"-", "-">>)
            THEN IF LongOptionOk(arg) THEN ArgLoop(Tail(args), options, q)
                 ELSE [options |-> options, query |-> q, help |-> TRUE]
            ELSE ArgLoop(Tail(args), options, arg)

In(c, options) == \E i \in 1..Len(options) : options[i] = c

(* lines 145-153 *)
SetOpts(o, options) ==
    [compact |-> o.compact \/ In("c", options),
     initialize |-> o.initialize \/ In("i", options),
     lines |-> o.lines \/ In("l", options),
     mono |-> o.mono \/ In("m", options),
     nulls |-> o.nulls \/ In("n", options),
     raw |-> o.raw \/ In("r", options),
     schema |-> o.schema \/ In("s", options),
     version_info |-> o.version_info \/ In("v", options),
     helpme |-> o.helpme \/ In("h", options)]

get_stdin(in) == IF in.tty THEN None ELSE PyStr(in.text)

(* ------------------------------ state ----------------------------------- *)
NoOpts ==
    [compact |-> FALSE, initialize |-> FALSE, lines |-> FALSE, mono |-> FALSE,
     nulls |-> FALSE, raw |-> FALSE, schema |-> FALSE, version_info |-> FALSE,
     helpme |-> FALSE]

NoPE == [e |-> Exc("", "", <<>>, NoAttr), fields |-> <<>>]

Locals0 ==
    /\ argv = <<>>
    /\ stdin = Terminal
    /\ data = None
    /\ query = DefaultQuery
    /\ list_dict_data = None
    /\ response = EmptyStr
    /\ output = EmptyStr
    /\ stdout = <<>>
    /\ stderr = <<>>
    /\ calls = <<>>
    /\ endKind = "none"
    /\ exitStatus = 0
    /\ interrupted = FALSE

Init ==
    /\ opts = NoOpts
    /\ sigint = "default"
    /\ isatty \in BOOLEAN
    /\ PYGMENTS_INSTALLED \in BOOLEAN
    /\ pc = "idle"
    /\ pe = NoPE
    /\ Locals0

End(kind, status) ==
    /\ pc' = "done"
    /\ endKind' = kind
    /\ exitStatus' = status

Env == <<isatty, PYGMENTS_INSTALLED, argv, stdin, pe>>

(* a call of main by the process; lines 111-123 *)
Invoke ==
    /\ pc = "idle"
    /\ \E a \in ArgLists, d \in DataInputs :
          /\ argv' = a
          /\ data' = d.data
          /\ stdin' = d.stdin
    /\ sigint' = "ctrlc"
    /\ pc' = "stdin"
    /\ UNCHANGED <<opts, isatty, PYGMENTS_INSTALLED, pe, query, list_dict_data, response,
                   output, stdout, stderr, calls, endKind, exitStatus, interrupted>>

(* main returned to its caller (an exit or an uncaught exception ends the  *)
(* process at line 242): the locals are gone, the module-level opts and    *)
(* the signal handler stay, and the caller may call main again             *)
Return ==
    /\ pc = "done"
    /\ endKind = "return"
    /\ pe = NoPE
    /\ pc' = "idle"
    /\ argv' = <<>>
    /\ stdin' = Terminal
    /\ data' = None
    /\ query' = DefaultQuery
    /\ list_dict_data' = None
    /\ response' = EmptyStr
    /\ output' = EmptyStr
    /\ stdout' = <<>>
    /\ stderr' = <<>>
    /\ calls' = <<>>
    /\ endKind' = "none"
    /\ exitStatus' = 0
    /\ interrupted' = FALSE
    /\ UNCHANGED <<opts, sigint, isatty, PYGMENTS_INSTALLED, pe>>

(* lines 125-126 *)
ReadStdin ==
    /\ pc = "stdin"
    /\ data' = IF data = None THEN get_stdin(stdin) ELSE data
    /\ pc' = "args"
    /\ UNCHANGED <<opts, sigint, query, list_dict_data, response, output, stdout, stderr,
                   calls, endKind, exitStatus, interrupted>>
    /\ UNCHANGED Env

(* lines 128-153: the loop over sys.argv[1:], then the option assignments *)
ParseArgs ==
    /\ pc = "args"
    /\ LET r == ArgLoop(argv, <<>>, query)
       IN IF r.help
          THEN /\ stdout' = Append(stdout, HelpText)
               /\ End("exit", 0)
               /\ UNCHANGED <<opts, query>>
          ELSE /\ query' = r.query
               /\ opts' = SetOpts(opts, r.options)
               /\ pc' = "help"
               /\ UNCHANGED <<stdout, endKind, exitStatus>>
    /\ UNCHANGED <<sigint, data, list_dict_data, response, output, stderr, calls, interrupted>>
    /\ UNCHANGED Env

CheckHelpAfterVersion ==
    /\ pc = "help"
    /\ IF opts.version_info
       THEN stdout' = Append(stdout, VersionText) /\ End("exit", 0)
       ELSE IF opts.helpme
       THEN stdout' = Append(stdout, HelpText) /\ End("exit", 0)
       ELSE pc' = "version" /\ UNCHANGED <<stdout, endKind, exitStatus>>
    /\ UNCHANGED <<opts, sigint, data, query, list_dict_data, response, output, stderr,
                   calls, interrupted>>
    /\ UNCHANGED Env

(* lines 155-156 *)
CheckHelp ==
    /\ pc = "help"
    /\ IF opts.helpme
       THEN stdout' = Append(stdout, HelpText) /\ End("exit", 0)
       ELSE pc' = "version" /\ UNCHANGED <<stdout, endKind, exitStatus>>
    /\ UNCHANGED <<opts, sigint, data, query, list_dict_data, response, output, stderr,
                   calls, interrupted>>
    /\ UNCHANGED Env

(* lines 158-166 *)
CheckVersion ==
    /\ pc = "version"
    /\ IF opts.version_info
       THEN stdout' = Append(stdout, VersionText) /\ End("exit", 0)
       ELSE pc' = "nodata" /\ UNCHANGED <<stdout, endKind, exitStatus>>
    /\ UNCHANGED <<opts, sigint, data, query, list_dict_data, response, output, stderr,
                   calls, interrupted>>
    /\ UNCHANGED Env

MissingData == <<"m", "i", "s", "s", "i", "n", "g">>

(* lines 168-169 *)
CheckData ==
    /\ pc = "nodata"
    /\ IF data = None
       THEN LET r == print_error("Missing", MissingData)
            IN stderr' = Append(stderr, r.msg) /\ End(r.kind, r.status)
       ELSE pc' = "blank" /\ UNCHANGED <<stderr, endKind, exitStatus>>
    /\ UNCHANGED <<opts, sigint, data, query, list_dict_data, response, output, stdout,
                   calls, interrupted>>
    /\ UNCHANGED Env

HasDataNonEmpty(d) == d.v # <<>>

(* line 172: if data and not data.isspace() *)
HasData(d) == d.v # <<>> /\ ~IsSpace(d.v)

CheckBlank ==
    /\ pc = "blank"
    /\ IF HasData(data)
       THEN pc' = "load" /\ UNCHANGED <<endKind, exitStatus>>
       ELSE End("return", 0)
    /\ UNCHANGED <<opts, sigint, data, query, list_dict_data, response, output, stdout,
                   stderr, calls, interrupted>>
    /\ UNCHANGED Env

(* ------------------------- the pipeline stages -------------------------- *)
NoExc == Exc("", "", <<>>, NoAttr)
Call(fn, a1, a2) == [fn |-> fn, a1 |-> a1, a2 |-> a2]

(* an exception that reaches the top of main *)
Propagate(e) ==
    IF e.cls = "SystemExit"
    THEN [printed |-> FALSE, msg |-> StderrItem("none", "", "", <<>>, <<>>, <<>>),
          kind |-> "exit", status |-> 1]
    ELSE [printed |-> TRUE, msg |-> StderrItem("traceback", "", e.cls, e.msg, <<>>, <<>>),
          kind |-> "uncaught", status |-> 1]

HandlerRuntime(stage, e) ==
    CASE stage = "load" -> print_error("JSON Load", e.msg)
      [] stage = "query" ->
            print_exception(e, list_dict_data, PyStr(query), EmptyStr, EmptyStr, "Query")
      [] stage = "format" ->
            print_exception(e, list_dict_data, PyStr(query), response, EmptyStr, "Runtime")
      [] stage = "print" ->
            print_exception(e, list_dict_data, PyStr(query), response, output, "Output")

(* the except clauses of lines 179-183, 190-191, 208-209, 237-238 *)
Handler(stage, e) ==
    CASE stage = "load" -> print_error("JSON Load", e.msg)
      [] stage = "query" ->
            print_exception(e, list_dict_data, PyStr(query), EmptyStr, EmptyStr, "Query")
      [] stage = "format" ->
            print_exception(e, list_dict_data, PyStr(query), response, EmptyStr, "Formatting")
      [] stage = "print" ->
            print_exception(e, list_dict_data, PyStr(query), response, output, "Output")

Stages == {"load", "query", "format", "print"}

(* exception e is raised at position p of main *)
RaiseAt(p, e) ==
    LET r == IF p \in Stages /\ Catches(e) THEN Handler(p, e) ELSE Propagate(e)
    IN /\ stderr' = IF r.printed THEN Append(stderr, r.msg) ELSE stderr
       /\ End(r.kind, r.status)

(* lines 174-183 *)
Load ==
    /\ pc = "load"
    /\ calls' = Append(calls, Call("load_json", data, None))
    /\ \E f \in {NoExc} \cup Faults :
          LET res == IF f = NoExc THEN load_json(data.v) ELSE Raise(f)
          IN IF res.ok
             THEN /\ list_dict_data' = res.val
                  /\ pc' = "query"
                  /\ UNCHANGED <<stderr, endKind, exitStatus>>
             ELSE /\ RaiseAt("load", res.exc)
                  /\ UNCHANGED list_dict_data
    /\ UNCHANGED <<opts, sigint, data, query, response, output, stdout, interrupted>>
    /\ UNCHANGED Env

QueryOnRawData ==
    /\ pc = "query"
    /\ calls' = Append(calls, Call("pyquery", data, PyStr(query)))
    /\ \E f \in {NoExc} \cup Faults :
          LET res == IF f = NoExc THEN pyquery(data, query) ELSE Raise(f)
          IN IF res.ok
             THEN /\ response' = res.val
                  /\ pc' = "format"
                  /\ UNCHANGED <<stderr, endKind, exitStatus>>
             ELSE /\ RaiseAt("query", res.exc)
                  /\ UNCHANGED response
    /\ UNCHANGED <<opts, sigint, data, query, list_dict_data, output, stdout, interrupted>>
    /\ UNCHANGED Env

(* lines 185-191 *)
Query ==
    /\ pc = "query"
    /\ calls' = Append(calls, Call("pyquery", list_dict_data, PyStr(query)))
    /\ \E f \in {NoExc} \cup Faults :
          LET res == IF f = NoExc THEN pyquery(list_dict_data, query) ELSE Raise(f)
          IN IF res.ok
             THEN /\ response' = res.val
                  /\ pc' = "format"
                  /\ UNCHANGED <<stderr, endKind, exitStatus>>
             ELSE /\ RaiseAt("query", res.exc)
                  /\ UNCHANGED response
    /\ UNCHANGED <<opts, sigint, data, query, list_dict_data, output, stdout, interrupted>>
    /\ UNCHANGED Env

(* lines 200-201 *)
ForceMono(o) ==
    IF o.schema /\ (~isatty \/ ~PYGMENTS_INSTALLED) THEN [o EXCEPT !.mono = TRUE] ELSE o

(* lines 193-209 *)
Format ==
    /\ pc = "format"
    /\ opts' = ForceMono(opts)
    /\ \E f \in {NoExc} \cup Faults, second \in BOOLEAN :
          IF opts.schema
          THEN LET walked == IF f # NoExc /\ ~second THEN Raise(f) ELSE Ok(None)
                   res == IF ~walked.ok THEN walked
                          ELSE IF f # NoExc THEN Raise(f) ELSE schema_text(response)
               IN /\ calls' = calls \o <<Call("create_schema", response, None)>>
                              \o (IF walked.ok THEN <<Call("schema_text", None, None)>> ELSE <<>>)
                  /\ IF res.ok
                     THEN /\ output' = res.val
                          /\ pc' = "print"
                          /\ UNCHANGED <<stderr, endKind, exitStatus>>
                     ELSE /\ RaiseAt("format", res.exc)
                          /\ UNCHANGED output
          ELSE LET res == IF f = NoExc THEN create_json(response, opts) ELSE Raise(f)
               IN /\ calls' = Append(calls, Call("create_json", response, None))
                  /\ IF res.ok
                     THEN /\ output' = res.val
                          /\ pc' = "print"
                          /\ UNCHANGED <<stderr, endKind, exitStatus>>
                     ELSE /\ RaiseAt("format", res.exc)
                          /\ UNCHANGED output
    /\ UNCHANGED <<sigint, data, query, list_dict_data, response, stdout, interrupted>>
    /\ UNCHANGED Env

(* line 217 *)
UseColourIgnoreRaw(o) == ~o.mono /\ isatty /\ PYGMENTS_INSTALLED
UseColour(o) == ~o.mono /\ ~o.raw /\ isatty /\ PYGMENTS_INSTALLED

(* lines 213-235: the text handed to print() *)
Printed(o, out) ==
    IF o.schema THEN out.v
    ELSE IF UseColour(o)
    THEN SubSeq(highlight(out.v), 1, Len(highlight(out.v)) - 1)
    ELSE out.v

(* lines 211-238 *)
Output ==
    /\ pc = "print"
    /\ calls' = Append(calls, Call("print", PyStr(Printed(opts, output)), None))
    /\ \E f \in {NoExc} \cup Faults :
          IF f = NoExc
          THEN /\ stdout' = Append(stdout, Printed(opts, output))
               /\ End("return", 0)
               /\ UNCHANGED stderr
          ELSE /\ RaiseAt("print", f)
               /\ UNCHANGED stdout
    /\ UNCHANGED <<opts, sigint, data, query, list_dict_data, response, output, interrupted>>
    /\ UNCHANGED Env

Running ==
    {"stdin", "args", "help", "version", "nodata", "blank", "load", "query", "format", "print"}

(* the call a stage is in when the signal arrives *)
StageCall(p) ==
    CASE p = "load" -> Call("load_json", data, None)
      [] p = "query" -> Call("pyquery", list_dict_data, PyStr(query))
      [] p = "format" -> Call(IF opts.schema THEN "create_schema" ELSE "create_json", response, None)
      [] p = "print" -> Call("print", PyStr(Printed(opts, output)), None)

(* SIGINT while main runs: ctrlc (lines 22-24) raises SystemExit(1) at the *)
(* current position, before the stage's call or inside it                  *)
Interrupt ==
    /\ pc \in Running
    /\ sigint = "ctrlc"
    /\ interrupted' = TRUE
    /\ \E during \in BOOLEAN :
          /\ during => pc \in Stages
          /\ calls' = IF during THEN Append(calls, StageCall(pc)) ELSE calls
          /\ opts' = IF during /\ pc = "format" THEN ForceMono(opts) ELSE opts
    /\ RaiseAt(pc, SystemExit1)
    /\ UNCHANGED <<sigint, data, query, list_dict_data, response, output, stdout>>
    /\ UNCHANGED Env

Next ==
    \/ Invoke
    \/ Return
    \/ ReadStdin
    \/ ParseArgs
    \/ CheckHelp
    \/ CheckVersion
    \/ CheckData
    \/ CheckBlank
    \/ Load
    \/ Query
    \/ Format
    \/ Output
    \/ Interrupt

Spec == Init /\ [][Next]_vars

(* ---------------- print_exception on arbitrary arguments ---------------- *)
(* a text of n characters, newlines at the positions in nls, every other   *)
(* character naming its own position                                       *)
FieldStr(n, nls) == PyStr([i \in 1..n |-> IF i \in nls THEN NL ELSE ToString(i)])

NewlinePlaces(n) ==
    { {}, {1}, {TruncKeep, TruncKeep + 1}, {MaxFieldLen - TruncKeep}, {n} }

LongFields ==
    UNION { { FieldStr(n, nls \cap 1..n) : nls \in NewlinePlaces(n) } : n \in 0..MaxFieldLen }

ShortFields ==
    { EmptyStr, PyStr(<<"a", NL, "b">>), PyList(<<PyInt("1"), PyStr(<<"a">>)>>) }

PEExceptions ==
    { Exc("ValueError", "Exception", <<"v">>, NoAttr),
      Exc("SyntaxError", "Exception", <<"s">>, PyStr(<<"x", NL>>)),
      Exc("SyntaxError", "Exception", <<"s">>, None) }

InitPE ==
    /\ opts = NoOpts
    /\ sigint = "ctrlc"
    /\ isatty = FALSE
    /\ PYGMENTS_INSTALLED = FALSE
    /\ pc = "print_exception"
    /\ \E e \in PEExceptions, long \in LongFields, short \in ShortFields, k \in 1..4 :
          pe = [e |-> e, fields |-> [i \in 1..4 |-> IF i = k THEN long ELSE short]]
    /\ Locals0

(* lines 67-108 *)
PrintException ==
    /\ pc = "print_exception"
    /\ LET r == print_exception(pe.e, pe.fields[1], pe.fields[2], pe.fields[3],
                                pe.fields[4], "Runtime")
       IN /\ stderr' = Append(stderr, r.msg)
          /\ End(r.kind, r.status)
    /\ UNCHANGED <<opts, sigint, isatty, PYGMENTS_INSTALLED, argv, stdin, data, query,
                   list_dict_data, response, output, stdout, calls, interrupted, pe>>

NextPE == PrintException

SpecPE == InitPE /\ [][NextPE]_vars

(* ============================== claims ================================== *)
LastCall == calls[Len(calls)]
CallFns == [i \in 1..Len(calls) |-> calls[i].fn]
IsPrefix(a, b) == Len(a) <= Len(b) /\ a = SubSeq(b, 1, Len(a))

ShortOption(a) == Len(a) >= 1 /\ a[1] = "-" /\ ~(Len(a) >= 2 /\ a[2] = "-")
LongOption(a) == Len(a) >= 2 /\ a[1] = "-" /\ a[2] = "-"
Positional(a) == Len(a) = 0 \/ a[1] # "-"
HasOpt(c) == \E i \in 1..Len(argv) : ShortOption(argv[i]) /\ \E j \in 2..Len(argv[i]) : argv[i][j] = c
BadLong == \E i \in 1..Len(argv) : LongOption(argv[i]) /\ ~LongOptionOk(argv[i])
Blank(d) == d.tag = "str" /\ \A i \in 1..Len(d.v) : d.v[i] \in {" ", NL, "\t"}

(* C1: a run in which load_json, pyquery or the format step did not return *)
(* normally ends with exit status 1, with nothing on STDOUT, the message   *)
(* on STDERR, and with that stage as the last one invoked.                 *)
C1_FailFast ==
    (pc = "done" /\ ~interrupted /\ calls # <<>>
        /\ LastCall.fn \in {"load_json", "pyquery", "create_json", "create_schema", "schema_text"})
    => /\ exitStatus = 1
       /\ endKind \in {"exit", "uncaught"}
       /\ stdout = <<>>
       /\ Len(stderr) = 1
       /\ LastCall.fn = "load_json" => list_dict_data = None
       /\ LastCall.fn = "pyquery" => response = EmptyStr
       /\ output = EmptyStr

C1_Witness ==
    /\ pc = "done" /\ ~interrupted
    /\ calls # <<>> /\ LastCall.fn = "load_json"
    /\ data = PyStr(<<"{">>)
    /\ Len(stderr) = 1 /\ stderr[1].ex_type = "JSON Load"

UnsupportedFor(x, o) == (o.raw /\ x.tag # "str") \/ (o.lines /\ ~IsScalarList(x))

(* C2 as stated: when raw or lines was requested for a value of the wrong  *)
(* shape, main falls back to standard JSON rendering and prints it.        *)
C2_Original ==
    (pc = "done" /\ ~interrupted /\ calls # <<>> /\ "create_json" \in {calls[i].fn : i \in 1..Len(calls)}
        /\ UnsupportedFor(response, opts)
        /\ (stderr # <<>> => stderr[1].cls = "UnsupportedShape"))
    => /\ endKind = "return"
       /\ stdout = <<Dumps(response, FALSE, 0)>>

(* C2 amended: when the serializer fails with UnsupportedShape, main       *)
(* reports a Formatting exception on STDERR and ends with exit status 1;   *)
(* nothing is printed on STDOUT and print is never called.                 *)
C2_Amended ==
    (pc = "done" /\ ~interrupted /\ calls # <<>> /\ LastCall.fn = "create_json"
        /\ UnsupportedFor(response, opts))
    => /\ exitStatus = 1
       /\ endKind \in {"exit", "uncaught"}
       /\ stdout = <<>>
       /\ Len(stderr) = 1
       /\ stderr[1].ex_type = "Formatting"
       /\ stderr[1].kind \in {"exception", "traceback"}

C2_Witness ==
    /\ pc = "done" /\ ~interrupted
    /\ opts.raw /\ response.tag = "list"
    /\ Len(stderr) = 1 /\ stderr[1].cls = "UnsupportedShape" /\ stderr[1].kind = "exception"

(* C3: the options in effect in a call of main are those of its own        *)
(* arguments, whatever an earlier call in the same process was given.      *)
C3_Independent ==
    pc \in {"help", "version", "nodata", "blank", "load", "query"}
    => /\ opts.compact = HasOpt("c")
       /\ opts.initialize = HasOpt("i")
       /\ opts.lines = HasOpt("l")
       /\ opts.mono = HasOpt("m")
       /\ opts.nulls = HasOpt("n")
       /\ opts.raw = HasOpt("r")
       /\ opts.schema = HasOpt("s")
       /\ opts.version_info = HasOpt("v")
       /\ opts.helpme = HasOpt("h")

JsonRun == <<"load_json", "pyquery", "create_json", "print">>
SchemaRun == <<"load_json", "pyquery", "create_schema", "schema_text", "print">>

(* C4: the stages run in the order load_json, pyquery, format, print, each *)
(* at most once and only after the one before returned; pyquery gets the   *)
(* value load_json returned; the format stage is the schema walker exactly *)
(* when the schema option is set and create_json otherwise; a run that     *)
(* returns writes its result with exactly one print.                       *)
C4_Pipeline ==
    /\ IsPrefix(CallFns, JsonRun) \/ IsPrefix(CallFns, SchemaRun)
    /\ \A i \in 1..Len(calls) :
          /\ calls[i].fn = "pyquery" =>
                /\ load_json(calls[1].a1.v).ok
                /\ calls[i].a1 = load_json(calls[1].a1.v).val
          /\ calls[i].fn = "create_schema" => opts.schema
          /\ calls[i].fn = "create_json" => ~opts.schema
          /\ calls[i].fn \in {"create_schema", "create_json"} => calls[i].a1 = response
          /\ calls[i].fn = "print" => calls[i].a1.v = Printed(opts, output)
    /\ calls # <<>> => Len(stdout) <= 1
    /\ (pc = "done" /\ endKind = "return" /\ ~Blank(data))
       => /\ CallFns \in {JsonRun, SchemaRun}
          /\ stdout = <<LastCall.a1.v>>

C4_Witness ==
    /\ pc = "done" /\ endKind = "return"
    /\ CallFns = SchemaRun
    /\ Len(stdout) = 1

LastPositional ==
    IF \E i \in 1..Len(argv) : Positional(argv[i])
    THEN argv[CHOOSE i \in 1..Len(argv) :
                Positional(argv[i]) /\ \A j \in (i + 1)..Len(argv) : ~Positional(argv[j])]
    ELSE <<"_">>

(* C5: the query handed to pyquery is '_' when no argument is positional,  *)
(* and otherwise the last positional argument, wherever the options stand. *)
C5_Query ==
    /\ pc \in {"help", "version", "nodata", "blank", "load", "query", "format", "print"}
       => query = LastPositional
    /\ \A i \in 1..Len(calls) :
          calls[i].fn = "pyquery" => calls[i].a2 = PyStr(LastPositional)

C5_Witness ==
    /\ Len(argv) = 2 /\ argv[1] = <<"_", "[", "0", "]">> /\ argv[2] = <<"-", "r">>
    /\ Len(calls) >= 2 /\ calls[2].fn = "pyquery" /\ calls[2].a2 = PyStr(<<"_", "[", "0", "]">>)

(* C6: a SIGINT delivered while main runs ends the run with exit status 1  *)
(* through the handler's exit; no except clause of main catches it, so     *)
(* nothing is reported on STDERR and no stage runs afterwards.             *)
C6_Interrupt ==
    (pc = "done" /\ interrupted)
    => /\ exitStatus = 1
       /\ endKind = "exit"
       /\ stderr = <<>>

C6_Witness ==
    /\ pc = "done" /\ interrupted
    /\ calls # <<>> /\ LastCall.fn = "pyquery"
    /\ exitStatus = 1

HelpRequested == HasOpt("h") \/ opts.helpme \/ BadLong

NoColour == opts.schema \/ opts.mono \/ opts.raw \/ ~isatty \/ ~PYGMENTS_INSTALLED

(* C8: the text of the format stage is printed as it is when schema, mono  *)
(* or raw is set, STDOUT is no terminal or the highlighter is missing, and *)
(* highlighted only otherwise; in schema mode mono is forced when STDOUT   *)
(* is no terminal or the highlighter is missing.                           *)
C8_Colour ==
    /\ (pc = "done" /\ endKind = "return" /\ stdout # <<>>)
       => /\ NoColour => stdout = <<output.v>>
          /\ ~NoColour => stdout = << <<"ESC">> \o output.v \o <<"RESET">> >>
    /\ (pc = "print" /\ opts.schema /\ (~isatty \/ ~PYGMENTS_INSTALLED)) => opts.mono
    /\ (pc = "print" /\ ~opts.schema) => output = create_json(response, opts).val

C8_Witness ==
    /\ pc = "done" /\ endKind = "return"
    /\ opts.raw /\ ~opts.mono /\ ~opts.schema /\ isatty /\ PYGMENTS_INSTALLED
    /\ stdout = <<output.v>> /\ output.v # <<>>

NLCount(s, i) == Cardinality({k \in 1..i : s[k] = NL})

(* every newline of s as the two characters backslash, n *)
Escaped(s) ==
    [j \in 1..(Len(s) + NLCount(s, Len(s))) |->
        LET i == CHOOSE i \in 1..Len(s) : i + NLCount(s, i - 1) <= j /\ j <= i + NLCount(s, i)
        IN IF s[i] # NL THEN s[i]
           ELSE IF j = i + NLCount(s, i - 1) THEN "\\" ELSE "n"]

Shown(s) ==
    LET e == Escaped(s)
    IN IF Len(e) <= 70 THEN e
       ELSE [j \in 1..73 |-> IF j <= 34 THEN e[j]
                             ELSE IF j <= 39 THEN Ellipsis[j - 34]
                             ELSE e[Len(e) - 73 + j]]

FieldNames == <<"data", "query", "response", "output">>
ItemsNamed(name) == {i \in 1..Len(stderr[1].items) : stderr[1].items[i].name = name}

(* C10: print_exception ends the run with exit status 1; each context      *)
(* field is shown with its newlines escaped, whole when that is at most 70 *)
(* characters and else as first 34, ' ... ', last 34 (73 characters); an   *)
(* empty field is left out; no shown field is longer than 73 characters.   *)
C10_PrintException ==
    pc = "done"
    => /\ exitStatus = 1
       /\ Len(stderr) = 1
       /\ stderr[1].kind = "exception" =>
             /\ \A k \in 1..4 :
                   LET shown == Shown(Str(pe.fields[k]))
                   IN IF shown = <<>> THEN ItemsNamed(FieldNames[k]) = {}
                      ELSE /\ Cardinality(ItemsNamed(FieldNames[k])) = 1
                           /\ \A i \in ItemsNamed(FieldNames[k]) :
                                 stderr[1].items[i].text = shown
             /\ \A i \in 1..Len(stderr[1].items) :
                   /\ Len(stderr[1].items[i].text) <= 73
                   /\ \A j \in 1..Len(stderr[1].items[i].text) :
                         stderr[1].items[i].text[j] # NL

C10_Witness ==
    /\ pc = "done" /\ stderr[1].kind = "exception"
    /\ \E k \in 1..4 :
          /\ Len(Str(pe.fields[k])) = 70
          /\ \E i \in ItemsNamed(FieldNames[k]) : Len(stderr[1].items[i].text) = 73
====
